---- MODULE Spec2Model ----
(***************************************************************************)
(* jobliterator (src/main.go): one run of the tool against a cluster.      *)
(*                                                                         *)
(* The cluster is the set of jobs and pods the API server holds; the run   *)
(* is main(): list the jobs, evaluate their eligibility, then either       *)
(* delete (flag -f) or report the eligible jobs and their terminal pods,   *)
(* then (flag -o) search for orphaned pods.  Every API call is one step    *)
(* whose outcome (success or an error) is chosen nondeterministically.     *)
(*                                                                         *)
(* Optional protobuf fields (pointers in the Go client) are modelled as    *)
(* sets with at most one element: {} is nil, {v} is a pointer to v.        *)
(***************************************************************************)
EXTENDS Integers, Sequences, FiniteSets, TLC

VARIABLES
    deleteJobs,     \* flag -f            (main.go:105)
    orphanedPods,   \* flag -o            (main.go:106)
    olderThanDays,  \* flag -days         (main.go:107)
    kubeNamespace,  \* flag -namespace    (main.go:104), "" = all namespaces
    clusterJobs,    \* the jobs held by the API server, in listing order
    clusterPods,    \* the pods held by the API server, in listing order
    pc,             \* position of main()
    jobs,           \* jobs.Items         (main.go:117)
    ei,             \* index of the evaluation loop (main.go:124)
    eligibleJobs,   \* eligibleJobs       (main.go:123)
    ji,             \* index of the loop over eligibleJobs (main.go:136, 217)
    eligiblePods,   \* eligiblePods       (main.go:147, 227)
    pi,             \* index of the loop over eligiblePods (main.go:159)
    opItems,        \* pods.Items in getOrphanedPods (main.go:65)
    oi,             \* index of the scan loop (main.go:70)
    opJobSet,       \* opJobSet           (main.go:64)
    opJobs,         \* opJobs             (main.go:185, 254)
    opErr,          \* err of getOrphanedPods is non-nil (main.go:186, 255)
    oj,             \* index of the loop over opJobs (main.go:189)
    op,             \* index of the loop over j.pods (main.go:195)
    opCount,        \* opCount            (main.go:181, 250)
    calls,          \* the API calls issued so far, oldest first
    report,         \* the lines printed so far: the report of simulate mode
                    \* and the summary of the orphan pass
    run,            \* the number of this invocation of the tool
    prevCalls,      \* calls of the invocation before this one
    prevReport,     \* report of the invocation before this one
    jobs0,          \* the jobs of the cluster before the first invocation
    pods0           \* the pods of the cluster before the first invocation

vars == <<deleteJobs, orphanedPods, olderThanDays, kubeNamespace, clusterJobs,
          clusterPods, pc, jobs, ei, eligibleJobs, ji, eligiblePods, pi,
          opItems, oi, opJobSet, opJobs, opErr, oj, op, opCount, calls,
          report, run, prevCalls, prevReport, jobs0, pods0>>

flags == <<deleteJobs, orphanedPods, olderThanDays, kubeNamespace>>
cluster == <<clusterJobs, clusterPods>>
evalVars == <<jobs, ei, eligibleJobs>>
cascVars == <<ji, eligiblePods, pi>>
orphanVars == <<opItems, oi, opJobSet, opJobs, opErr, oj, op, opCount>>
earlier == <<run, prevCalls, prevReport, jobs0, pods0>>

----------------------------------------------------------------------------
(* Bounds of the model.                                                    *)

MaxJobs == 2            \* most jobs in the cluster
MaxPods == 2            \* most pods in the cluster
MaxFailures == 1        \* most API calls of a run that fail with an error
MaxRuns == 2            \* most invocations of the tool in a row
NowSeconds == 172800    \* time.Now() of the run, seconds since the epoch

(* Program constants.                                                      *)

SecondsPerHour == 3600  \* time.Duration.Hours
HoursPerDay == 24       \* main.go:129
NotFoundCode == 404     \* main.go:77

----------------------------------------------------------------------------
(* The inputs: flags and cluster contents.                                 *)

Namespaces == {"a", "b"}
Scopes == {"", "a"}
Thresholds == {0, 2}

\* The job keys of the cluster in the order the API server lists them.
JobKeys == << [namespace |-> "a", name |-> "J1"],
              [namespace |-> "a", name |-> "J2"],
              [namespace |-> "b", name |-> "J1"] >>

ActiveValues == {{}, {0}, {1}, {2}}
CompletionValues == {{}, {0}, {NowSeconds - 129600}, {NowSeconds + 43200}}

Phases == {"Succeeded", "Failed", "Running"}
LabelValues == {{}, {"J1"}, {"J2"}}

RECURSIVE PickSeq(_, _)
PickSeq(S, f) ==
    IF S = {} THEN <<>>
    ELSE LET m == CHOOSE x \in S : \A y \in S : x <= y
         IN  <<f[m]>> \o PickSeq(S \ {m}, f)

\* The clusters of at most MaxJobs jobs, each with a status of `statuses`.
JobLists(statuses) ==
    UNION { { PickSeq(S, [k \in S |-> [name |-> JobKeys[k].name,
                                       namespace |-> JobKeys[k].namespace,
                                       active |-> st[k].active,
                                       completionTime |-> st[k].completionTime]]) :
                st \in [S -> statuses] } :
            S \in {T \in SUBSET (1..Len(JobKeys)) : Cardinality(T) <= MaxJobs} }

PodNames == <<"p1", "p2", "p3", "p4">>

\* The clusters of at most MaxPods pods, each with a shape of `shapes`.
PodLists(shapes) ==
    UNION { { [k \in 1..n |-> [name |-> PodNames[k],
                               namespace |-> sh[k].namespace,
                               phase |-> sh[k].phase,
                               label |-> sh[k].label]] :
                sh \in [1..n -> shapes] } :
            n \in {m \in 0..MaxPods : m <= Len(PodNames)} }

\* Every job status, for the evaluation of the jobs.
AllStatuses == [active : ActiveValues, completionTime : CompletionValues]

\* The job statuses of a whole run: finished at the epoch with no active
\* pod (eligible), running with one active pod (skipped).
RunStatuses ==
    { [active |-> {0}, completionTime |-> {}],
      [active |-> {1}, completionTime |-> {}] }

\* The threshold of a whole run: the age in days of a job finished at the
\* epoch.
RunThresholds == {NowSeconds \div (SecondsPerHour * HoursPerDay)}

\* The pods of a whole run: pods of job J1 in both namespaces, a pod of
\* job J2 and a pod without the label job-name.
RunShapes ==
    { [namespace |-> "a", phase |-> "Succeeded", label |-> {"J1"}],
      [namespace |-> "a", phase |-> "Running",   label |-> {"J1"}],
      [namespace |-> "b", phase |-> "Failed",    label |-> {"J1"}],
      [namespace |-> "a", phase |-> "Failed",    label |-> {"J2"}],
      [namespace |-> "a", phase |-> "Succeeded", label |-> {}] }

----------------------------------------------------------------------------
(* The API server.                                                         *)

\* ListJobs(ctx, namespace): the jobs of the namespace, all jobs for "".
ListJobs(ns) ==
    SelectSeq(clusterJobs, LAMBDA j : ns = "" \/ j.namespace = ns)

\* ListPods(ctx, namespace, selector): sel = {} is no selector, {v} selects
\* the pods labelled job-name=v.
ListPods(ns, sel) ==
    SelectSeq(clusterPods, LAMBDA p : /\ (ns = "" \/ p.namespace = ns)
                                      /\ (sel = {} \/ p.label = sel))

\* A job of that name is stored under that namespace.  No job is stored
\* under the namespace "".
JobExists(name, ns) ==
    \E k \in 1..Len(clusterJobs) :
        clusterJobs[k].name = name /\ clusterJobs[k].namespace = ns

PodExists(name, ns) ==
    \E k \in 1..Len(clusterPods) :
        clusterPods[k].name = name /\ clusterPods[k].namespace = ns

\* An API call of the first invocation may fail as long as fewer than
\* MaxFailures calls have failed; a later invocation meets no failure.
\* A lookup of a job that does not exist is answered, not failed.
Failed(c) == c.res \in {"err", "api", "other"}

MayFail == run = 1 /\ Len(SelectSeq(calls, Failed)) < MaxFailures

\* The outcomes of ListJobs / ListPods.
ListOutcomes == {"ok"} \cup (IF MayFail THEN {"err"} ELSE {})

\* The outcomes of GetJob(ctx, name, namespace): the job, or an *APIError
\* with its HTTP code, or an error of another type.
GetJobOutcomes(name, ns) ==
    (IF JobExists(name, ns) THEN {[kind |-> "ok", code |-> 200]}
                            ELSE {[kind |-> "api", code |-> NotFoundCode]})
    \cup (IF MayFail THEN {[kind |-> "api", code |-> 500],
                           [kind |-> "other", code |-> 0]}
                     ELSE {})

\* The outcomes of DeletePod / DeleteJob of a resource that exists or not.
DeleteOutcomes(exists) ==
    (IF exists THEN {"ok"} ELSE {}) \cup (IF MayFail \/ ~exists THEN {"err"} ELSE {})

RemovePod(name, ns) ==
    SelectSeq(clusterPods, LAMBDA p : ~(p.name = name /\ p.namespace = ns))

RemoveJob(name, ns) ==
    SelectSeq(clusterJobs, LAMBDA j : ~(j.name = name /\ j.namespace = ns))

\* An entry of `calls`: the operation, the name and namespace passed, the
\* phase recorded for a pod to delete, the index in eligibleJobs of the
\* cascade that made the call (0 outside the cascades), the result, and
\* the pods the call returned (ListPods) or was made for (GetJob).
Call(o, name, ns, phase, job, res, pods) ==
    [op |-> o, name |-> name, namespace |-> ns, phase |-> phase,
     job |-> job, res |-> res, pods |-> pods]

\* A line of the report: an eligible job with its age and the terminal
\* pods listed for it ("job"), the number of eligible jobs ("total"), an
\* orphan group with its pods ("group"), the two numbers of the summary
\* of the orphan pass ("summary").
Line(kind, name, ns, pods, n, m) ==
    [kind |-> kind, name |-> name, namespace |-> ns, pods |-> pods,
     n |-> n, m |-> m]

----------------------------------------------------------------------------
(* Helpers of main() and getOrphanedPods().                                *)

kubePod(p) == [name |-> p.name, namespace |-> p.namespace, phase |-> p.phase]

kubeJob(name, ns, age, pods) ==
    [name |-> name, namespace |-> ns, age |-> age, pods |-> pods]

\* kubeJobSet.Add: append the pod to the group of the job, creating it.
Add(js, job, pod) ==
    IF job \in DOMAIN js THEN [js EXCEPT ![job] = Append(@, pod)]
                          ELSE js @@ (job :> <<pod>>)

\* Timestamp.GetSeconds of a possibly nil completion time.
GetSeconds(ct) == IF ct = {} THEN 0 ELSE CHOOSE s \in ct : TRUE

\* int(x / y) of Go for y > 0: the quotient truncated toward zero.
TruncDiv(x, y) == IF x >= 0 THEN x \div y ELSE -((-x) \div y)

\* daysOld := int(now.Sub(completionTime).Hours() / 24)
DaysOld(j) ==
    TruncDiv(NowSeconds - GetSeconds(j.completionTime),
             SecondsPerHour * HoursPerDay)

\* A variant of StillRunning that skips the jobs with no active pod.
StillRunningZero(j) == j.active = {0}

\* if *j.Status.Active == 1 { continue }
StillRunning(j) == j.active = {1}

\* if daysOld >= *olderThanDays
OldEnough(daysOld, threshold) == daysOld >= threshold

\* A variant of TerminalPhase that only excludes the phase Pending.
TerminalPhaseNotPending(phase) == phase # "Pending"

\* *p.Status.Phase == "Succeeded" || *p.Status.Phase == "Failed"
TerminalPhase(phase) == phase = "Succeeded" \/ phase = "Failed"

\* The eligiblePods built from pods.Items.
TerminalPods(items) ==
    LET sel == SelectSeq(items, LAMBDA p : TerminalPhase(p.phase))
    IN  [k \in 1..Len(sel) |-> kubePod(sel[k])]

\* A variant of ApplyMode that ignores the flag.
ApplyModeAlways == TRUE

\* if *deleteJobs
ApplyMode == deleteJobs

\* A variant of NextStage that deletes the job before its pods.
NextStageJobFirst(stage, more) ==
    CASE stage = "list"      -> "deleteJob"
      [] stage = "deleteJob" -> IF more THEN "deletePod" ELSE "cascade"
      [] stage = "deletePod" -> IF more THEN "deletePod" ELSE "cascade"

\* A variant of NextStage that goes from the listing to the job.
NextStageSkipPods(stage, more) ==
    CASE stage = "list"      -> "deleteJob"
      [] stage = "deletePod" -> "deleteJob"
      [] stage = "deleteJob" -> "cascade"

\* The order of one cascade: the pods of the job, then the job, then the
\* next job.  `more` says that eligiblePods has an entry left.
NextStage(stage, more) ==
    CASE stage = "list"      -> IF more THEN "deletePod" ELSE "deleteJob"
      [] stage = "deletePod" -> IF more THEN "deletePod" ELSE "deleteJob"
      [] stage = "deleteJob" -> "cascade"

\* A variant of CascadeSkips that goes on with the cascade after an error.
CascadeSkipsNever(res) == FALSE

\* if err != nil { fmt.Printf(...); continue } after the pod listing of a
\* cascade, main.go:142-146.
CascadeSkips(res) == res = "err"

\* A variant of AfterDelete that stays on the entry whose call failed.
AfterDeleteRetry(res, k) == IF res = "err" THEN k ELSE k + 1

\* The loop variable after a delete call: `continue` on an error, the end
\* of the body otherwise.
AfterDelete(res, k) == k + 1

\* GetJob returns a nil job together with every error.
ReturnedNil(out) == out.kind # "ok"

\* jobCheck == nil after the error handling of main.go:75-83.
JobCheckNil(out) ==
    IF out.kind = "api" /\ out.code = NotFoundCode THEN TRUE
    ELSE ReturnedNil(out)

\* A variant of LookupAborts that returns on every error but not-found.
LookupAbortsNot404(out) ==
    out.kind = "other" \/ (out.kind = "api" /\ out.code # NotFoundCode)

\* The error handling of main.go:75-83 returns from getOrphanedPods.
LookupAborts(out) == out.kind = "other"

\* The orders in which `range opJobSet` can visit the keys.
Orders(S) ==
    { f \in [1..Cardinality(S) -> S] : \A x \in S : \E k \in DOMAIN f : f[k] = x }

\* The number of entries of phase Succeeded or Failed in the groups.
RECURSIVE CountTerminal(_)
CountTerminal(groups) ==
    IF groups = <<>> THEN 0
    ELSE Len(SelectSeq(Head(groups).pods, LAMBDA q : TerminalPhase(q.phase)))
         + CountTerminal(Tail(groups))

----------------------------------------------------------------------------
(* The state after flag.Parse() and loadClient().                          *)

InitWith(statuses, shapes, thresholds) ==
    /\ deleteJobs \in BOOLEAN
    /\ orphanedPods \in BOOLEAN
    /\ olderThanDays \in thresholds
    /\ kubeNamespace \in Scopes
    /\ clusterJobs \in JobLists(statuses)
    /\ clusterPods \in PodLists(shapes)
    /\ pc = "start"
    /\ jobs = <<>>
    /\ ei = 1
    /\ eligibleJobs = <<>>
    /\ ji = 1
    /\ eligiblePods = <<>>
    /\ pi = 1
    /\ opItems = <<>>
    /\ oi = 1
    /\ opJobSet = <<>>
    /\ opJobs = <<>>
    /\ opErr = FALSE
    /\ oj = 1
    /\ op = 1
    /\ opCount = 0
    /\ calls = <<>>
    /\ report = <<>>
    /\ run = 1
    /\ prevCalls = <<>>
    /\ prevReport = <<>>
    /\ jobs0 = clusterJobs
    /\ pods0 = clusterPods

Init == InitWith(RunStatuses, RunShapes, RunThresholds)

----------------------------------------------------------------------------
(* main(): listing and evaluation, main.go:117-133.                        *)

\* jobs, err := ListJobs(...); a failure panics.
ListAllJobs ==
    /\ pc = "start"
    /\ \E res \in ListOutcomes :
         /\ calls' = Append(calls, Call("ListJobs", "", kubeNamespace, "", 0, res, <<>>))
         /\ IF res = "err"
            THEN pc' = "panic" /\ UNCHANGED jobs
            ELSE pc' = "evaluate" /\ jobs' = ListJobs(kubeNamespace)
    /\ UNCHANGED <<flags, earlier, report, cluster, ei, eligibleJobs, cascVars, orphanVars>>

\* One iteration of `for _, j := range jobs.Items`.  Dereferencing a nil
\* Active panics.
EvaluateJob ==
    /\ pc = "evaluate"
    /\ ei <= Len(jobs)
    /\ LET j == jobs[ei] IN
         IF j.active = {}
         THEN pc' = "panic" /\ UNCHANGED <<ei, eligibleJobs>>
         ELSE /\ pc' = pc
              /\ ei' = ei + 1
              /\ eligibleJobs' =
                    IF ~StillRunning(j) /\ OldEnough(DaysOld(j), olderThanDays)
                    THEN Append(eligibleJobs,
                                kubeJob(j.name, j.namespace, DaysOld(j), <<>>))
                    ELSE eligibleJobs
    /\ UNCHANGED <<flags, earlier, report, cluster, jobs, cascVars, orphanVars, calls>>

\* if *deleteJobs { ... } else { ... }
Branch ==
    /\ pc = "evaluate"
    /\ ei > Len(jobs)
    /\ pc' = IF ApplyMode THEN "cascade" ELSE "simulate"
    /\ UNCHANGED <<flags, earlier, report, cluster, evalVars, cascVars, orphanVars, calls>>

----------------------------------------------------------------------------
(* main(): apply mode, main.go:136-179.                                    *)

\* The head of one cascade: list the pods labelled with the job's name and
\* keep the terminal ones.  A failure skips the job.
CascadeListPods ==
    /\ pc = "cascade"
    /\ ji <= Len(eligibleJobs)
    /\ LET dj == eligibleJobs[ji] IN
       \E res \in ListOutcomes :
         /\ calls' = Append(calls, Call("ListPods", dj.name, kubeNamespace, "", ji, res,
                                        IF res = "ok"
                                        THEN ListPods(kubeNamespace, {dj.name})
                                        ELSE <<>>))
         /\ IF CascadeSkips(res)
            THEN /\ ji' = ji + 1
                 /\ UNCHANGED <<pc, eligiblePods, pi>>
            ELSE LET ep == TerminalPods(ListPods(kubeNamespace, {dj.name})) IN
                 /\ eligiblePods' = ep
                 /\ pi' = 1
                 /\ pc' = NextStage("list", Len(ep) > 0)
                 /\ ji' = IF pc' = "cascade" THEN ji + 1 ELSE ji
    /\ UNCHANGED <<flags, earlier, report, cluster, evalVars, orphanVars>>

\* podErr = DeletePod(dp.name, dp.namespace)
CascadeDeletePod ==
    /\ pc = "deletePod"
    /\ pi <= Len(eligiblePods)
    /\ LET dp == eligiblePods[pi] IN
       \E res \in DeleteOutcomes(PodExists(dp.name, dp.namespace)) :
         /\ calls' = Append(calls, Call("DeletePod", dp.name, dp.namespace, dp.phase, ji, res, <<>>))
         /\ clusterPods' = IF res = "ok" THEN RemovePod(dp.name, dp.namespace)
                                         ELSE clusterPods
         /\ pi' = AfterDelete(res, pi)
         /\ pc' = NextStage("deletePod", pi' <= Len(eligiblePods))
         /\ ji' = IF pc' = "cascade" THEN ji + 1 ELSE ji
    /\ UNCHANGED <<flags, earlier, report, clusterJobs, evalVars, eligiblePods, orphanVars>>

\* err2 := DeleteJob(dj.name, dj.namespace)
CascadeDeleteJob ==
    /\ pc = "deleteJob"
    /\ LET dj == eligibleJobs[ji] IN
       \E res \in DeleteOutcomes(JobExists(dj.name, dj.namespace)) :
         /\ calls' = Append(calls, Call("DeleteJob", dj.name, dj.namespace, "", ji, res, <<>>))
         /\ clusterJobs' = IF res = "ok" THEN RemoveJob(dj.name, dj.namespace)
                                         ELSE clusterJobs
         /\ pc' = NextStage("deleteJob", pi <= Len(eligiblePods))
         /\ ji' = IF pc' = "cascade" THEN AfterDelete(res, ji) ELSE ji
    /\ UNCHANGED <<flags, earlier, report, clusterPods, evalVars, eligiblePods, pi, orphanVars>>

\* The loop over eligibleJobs is over: if *orphanedPods.
CascadeEnd ==
    /\ pc = "cascade"
    /\ ji > Len(eligibleJobs)
    /\ pc' = IF orphanedPods THEN "orphans" ELSE "done"
    /\ UNCHANGED <<flags, earlier, report, cluster, evalVars, cascVars, orphanVars, calls>>

----------------------------------------------------------------------------
(* main(): simulate mode, main.go:216-248.                                 *)

\* One iteration of the report loop: list the pods of the job and print
\* the terminal ones.  A failure skips the job.
SimulateJob ==
    /\ pc = "simulate"
    /\ ji <= Len(eligibleJobs)
    /\ LET dj == eligibleJobs[ji] IN
       \E res \in ListOutcomes :
         /\ calls' = Append(calls, Call("ListPods", dj.name, kubeNamespace, "", ji, res,
                                        IF res = "ok"
                                        THEN ListPods(kubeNamespace, {dj.name})
                                        ELSE <<>>))
         /\ eligiblePods' =
               IF res = "ok" THEN TerminalPods(ListPods(kubeNamespace, {dj.name}))
                             ELSE eligiblePods
         /\ report' = Append(report,
                             IF res = "ok"
                             THEN Line("job", dj.name, dj.namespace,
                                       TerminalPods(ListPods(kubeNamespace, {dj.name})),
                                       dj.age, 0)
                             ELSE Line("skipped", dj.name, dj.namespace, <<>>,
                                       dj.age, 0))
         /\ ji' = ji + 1
    /\ UNCHANGED <<flags, earlier, cluster, pc, evalVars, pi, orphanVars>>

\* The loop is over: print the total, if *orphanedPods.
SimulateEnd ==
    /\ pc = "simulate"
    /\ ji > Len(eligibleJobs)
    /\ report' = Append(report, Line("total", "", "", <<>>, Len(eligibleJobs), 0))
    /\ pc' = IF orphanedPods THEN "orphans" ELSE "done"
    /\ UNCHANGED <<flags, earlier, cluster, evalVars, cascVars, orphanVars, calls>>

----------------------------------------------------------------------------
(* getOrphanedPods(), main.go:62-98.                                       *)

\* pods, podErr := ListPods(ctx, kubeNamespace); a failure and an empty
\* list both return an error.
OrphanListPods ==
    /\ pc = "orphans"
    /\ \E res \in ListOutcomes :
         /\ calls' = Append(calls, Call("ListPods", "", kubeNamespace, "", 0, res,
                                        IF res = "ok" THEN ListPods(kubeNamespace, {})
                                                      ELSE <<>>))
         /\ LET items == ListPods(kubeNamespace, {}) IN
            IF res = "err" \/ Len(items) = 0
            THEN /\ opErr' = TRUE
                 /\ pc' = "summary"
                 /\ UNCHANGED <<opItems, oi, opJobSet>>
            ELSE /\ opItems' = items
                 /\ oi' = 1
                 /\ opJobSet' = <<>>
                 /\ pc' = "scan"
                 /\ UNCHANGED opErr
    /\ UNCHANGED <<flags, earlier, report, cluster, evalVars, cascVars, opJobs, oj, op, opCount>>

\* One iteration of `for _, p := range pods.Items`: look the job of a
\* labelled pod up and add the pod to opJobSet when jobCheck is nil.
OrphanScanPod ==
    /\ pc = "scan"
    /\ oi <= Len(opItems)
    /\ LET p == opItems[oi] IN
       IF p.label = {}
       THEN /\ oi' = oi + 1
            /\ UNCHANGED <<pc, opJobSet, opErr, calls>>
       ELSE LET val == CHOOSE v \in p.label : TRUE IN
            \E out \in GetJobOutcomes(val, kubeNamespace) :
              /\ calls' = Append(calls, Call("GetJob", val, kubeNamespace, "", 0,
                                             IF out.kind = "ok" THEN "ok"
                                             ELSE IF out.kind = "other" THEN "other"
                                             ELSE IF out.code = NotFoundCode THEN "notfound"
                                             ELSE "api",
                                             <<p>>))
              /\ IF LookupAborts(out)
                 THEN /\ opErr' = TRUE
                      /\ pc' = "summary"
                      /\ UNCHANGED <<oi, opJobSet>>
                 ELSE /\ opJobSet' = IF JobCheckNil(out)
                                     THEN Add(opJobSet, val, kubePod(p))
                                     ELSE opJobSet
                      /\ oi' = oi + 1
                      /\ UNCHANGED <<pc, opErr>>
    /\ UNCHANGED <<flags, earlier, report, cluster, evalVars, cascVars, opItems, opJobs, oj, op, opCount>>

\* for k, v := range opJobSet { opJobs = append(opJobs, ...) }; return.
\* The range over the map visits the keys in any order.
OrphanReturn ==
    /\ pc = "scan"
    /\ oi > Len(opItems)
    /\ \E order \in Orders(DOMAIN opJobSet) :
         opJobs' = [k \in 1..Len(order) |->
                      kubeJob(order[k], kubeNamespace, 0, opJobSet[order[k]])]
    /\ oj' = 1
    /\ op' = 1
    /\ pc' = IF ApplyMode THEN "opDelete" ELSE "opReport"
    /\ UNCHANGED <<flags, earlier, report, cluster, evalVars, cascVars, opItems, oi, opJobSet,
                   opErr, opCount, calls>>

----------------------------------------------------------------------------
(* main(): the orphan pass, main.go:180-214 and 249-272.                   *)

\* Apply mode, one iteration of `for _, op := range j.pods`: delete the
\* pod if its phase is terminal.
OrphanDeletePod ==
    /\ pc = "opDelete"
    /\ oj <= Len(opJobs)
    /\ LET j == opJobs[oj]
           q == j.pods[op]
           last == op >= Len(j.pods)
       IN  /\ IF TerminalPhase(q.phase)
              THEN \E res \in DeleteOutcomes(PodExists(q.name, q.namespace)) :
                     /\ opCount' = opCount + 1
                     /\ calls' = Append(calls, Call("DeletePod", q.name, q.namespace,
                                                    q.phase, 0, res, <<>>))
                     /\ clusterPods' = IF res = "ok" THEN RemovePod(q.name, q.namespace)
                                                     ELSE clusterPods
              ELSE UNCHANGED <<opCount, calls, clusterPods>>
           /\ op' = IF last THEN 1 ELSE op + 1
           /\ oj' = IF last THEN oj + 1 ELSE oj
    /\ UNCHANGED <<flags, earlier, report, clusterJobs, pc, evalVars, cascVars, opItems, oi,
                   opJobSet, opJobs, opErr>>

\* Apply mode: the loop over opJobs is over.
OrphanDeleteEnd ==
    /\ pc = "opDelete"
    /\ oj > Len(opJobs)
    /\ pc' = "summary"
    /\ UNCHANGED <<flags, earlier, report, cluster, evalVars, cascVars, orphanVars, calls>>

\* Simulate mode: the loop over opJobs prints the pods and counts the
\* terminal ones.
OrphanReport ==
    /\ pc = "opReport"
    /\ opCount' = CountTerminal(opJobs)
    /\ report' = report \o [k \in 1..Len(opJobs) |->
                               Line("group", opJobs[k].name, opJobs[k].namespace,
                                    opJobs[k].pods, 0, 0)]
    /\ oj' = Len(opJobs) + 1
    /\ pc' = "summary"
    /\ UNCHANGED <<flags, earlier, cluster, evalVars, cascVars, opItems, oi, opJobSet,
                   opJobs, opErr, op, calls>>

\* fmt.Printf("Total orphaned Pods: %v beloning to %v jobs.\n", ...)
Summary ==
    /\ pc = "summary"
    /\ report' = Append(report, Line("summary", "", "", <<>>, opCount, Len(opJobs)))
    /\ pc' = "done"
    /\ UNCHANGED <<flags, earlier, cluster, evalVars, cascVars, orphanVars, calls>>

----------------------------------------------------------------------------

Next ==
    \/ ListAllJobs
    \/ EvaluateJob
    \/ Branch
    \/ CascadeListPods
    \/ CascadeDeletePod
    \/ CascadeDeleteJob
    \/ CascadeEnd
    \/ SimulateJob
    \/ SimulateEnd
    \/ OrphanListPods
    \/ OrphanScanPod
    \/ OrphanReturn
    \/ OrphanDeletePod
    \/ OrphanDeleteEnd
    \/ OrphanReport
    \/ Summary

Spec == Init /\ [][Next]_vars

\* The evaluation of the jobs alone, main.go:117-135, on every job status.
InitEval == InitWith(AllStatuses, {}, Thresholds)

NextEval ==
    \/ ListAllJobs
    \/ EvaluateJob
    \/ Branch

SpecEval == InitEval /\ [][NextEval]_vars

\* main() runs to its end: a step that can be taken is taken.
FairSpec == Spec /\ WF_vars(Next)

\* The process of an apply run is killed between two API calls.
Interrupt ==
    /\ ApplyMode
    /\ run = 1
    /\ pc \in {"cascade", "deletePod", "deleteJob", "orphans", "scan", "opDelete"}
    /\ pc' = "killed"
    /\ UNCHANGED <<flags, earlier, report, cluster, evalVars, cascVars, orphanVars, calls>>

\* The tool is invoked again with the same flags on the cluster the
\* invocation before has left: main() starts over.
Reinvoke ==
    /\ pc \in {"done", "killed"}
    /\ run < MaxRuns
    /\ run' = run + 1
    /\ prevCalls' = calls
    /\ prevReport' = report
    /\ pc' = "start"
    /\ jobs' = <<>>
    /\ ei' = 1
    /\ eligibleJobs' = <<>>
    /\ ji' = 1
    /\ eligiblePods' = <<>>
    /\ pi' = 1
    /\ opItems' = <<>>
    /\ oi' = 1
    /\ opJobSet' = <<>>
    /\ opJobs' = <<>>
    /\ opErr' = FALSE
    /\ oj' = 1
    /\ op' = 1
    /\ opCount' = 0
    /\ calls' = <<>>
    /\ report' = <<>>
    /\ UNCHANGED <<flags, cluster, jobs0, pods0>>

NextAgain ==
    \/ Next
    \/ Interrupt
    \/ Reinvoke

\* Invocations in a row: the first may meet API errors and may be killed.
SpecAgain == Init /\ [][NextAgain]_vars

TypeOK ==
    /\ pc \in {"start", "evaluate", "cascade", "deletePod", "deleteJob", "simulate",
                "orphans", "scan", "opDelete", "opReport", "summary", "done", "panic",
                "killed"}
    /\ run \in 1..MaxRuns
    /\ ei \in 1..(Len(jobs) + 1)
    /\ ji \in 1..(Len(eligibleJobs) + 1)

----------------------------------------------------------------------------
(* Properties.                                                             *)

Calls(o) == {k \in DOMAIN calls : calls[k].op = o}
DeleteCalls == Calls("DeletePod") \cup Calls("DeleteJob")
CascadesOver == pc \in {"orphans", "scan", "opDelete", "opReport", "summary", "done"}

\* C1: in simulate mode (flag -f absent) no step issues a DeletePod or a
\* DeleteJob call and no step changes the jobs or the pods of the cluster,
\* whatever the flags, the listings and the API errors.
C1_SimulateIssuesNoDelete ==
    [][ ~deleteJobs =>
          /\ clusterJobs' = clusterJobs
          /\ clusterPods' = clusterPods
          /\ \A k \in DOMAIN calls' : calls'[k].op \notin {"DeletePod", "DeleteJob"} ]_vars

\* A simulate run with the orphan search that reported an eligible job with
\* a terminal pod and counted an orphaned pod has ended.
C1_Witness ==
    /\ ~deleteJobs
    /\ orphanedPods
    /\ pc = "done"
    /\ Len(eligibleJobs) > 0
    /\ Len(eligiblePods) > 0
    /\ opCount > 0

\* C2: every DeletePod call, in a cascade and in the orphan pass, is made
\* for a pod recorded with phase Succeeded or Failed, and the pod of that
\* name and namespace in the cluster has such a phase when the call is made.
C2_DeletePodOnlyTerminal ==
    [][ \A k \in DOMAIN calls' \ DOMAIN calls :
          calls'[k].op = "DeletePod" =>
            /\ calls'[k].phase \in {"Succeeded", "Failed"}
            /\ \A n \in DOMAIN clusterPods :
                 (/\ clusterPods[n].name = calls'[k].name
                  /\ clusterPods[n].namespace = calls'[k].namespace)
                 => clusterPods[n].phase \in {"Succeeded", "Failed"} ]_vars

\* An apply run has deleted a pod in the cascade of a job and has ended
\* with a running pod of that job still in the cluster.
C2_Witness ==
    /\ pc = "done"
    /\ \E k \in Calls("DeletePod") :
         /\ calls[k].job > 0
         /\ calls[k].res = "ok"
         /\ \E n \in DOMAIN clusterPods :
              /\ clusterPods[n].label = {eligibleJobs[calls[k].job].name}
              /\ clusterPods[n].phase = "Running"

\* The jobs of the listing with that name and namespace.
Listed(name, ns) ==
    {n \in DOMAIN jobs : jobs[n].name = name /\ jobs[n].namespace = ns}

\* C3: every job in the eligible set, and every job a DeleteJob call is
\* made for, has an active count that is zero or unset.
C3_EligibleJobsAreTerminal ==
    /\ \A k \in DOMAIN eligibleJobs :
         \A n \in Listed(eligibleJobs[k].name, eligibleJobs[k].namespace) :
           jobs[n].active \in {{}, {0}}
    /\ \A k \in Calls("DeleteJob") :
         \A n \in Listed(calls[k].name, calls[k].namespace) :
           jobs[n].active \in {{}, {0}}

\* C4: a job with active count 1 is not in the eligible set, whatever its
\* completion time and the threshold.
C4_ActiveOneNeverEligible ==
    \A n \in DOMAIN jobs :
      jobs[n].active = {1} =>
        \A k \in DOMAIN eligibleJobs :
          ~(/\ eligibleJobs[k].name = jobs[n].name
            /\ eligibleJobs[k].namespace = jobs[n].namespace)

\* The evaluation is over; it has passed a job with active count 1 that is
\* as old as the threshold asks and has put another job in the eligible set.
C4_Witness ==
    /\ pc = "evaluate"
    /\ ei > Len(jobs)
    /\ Len(eligibleJobs) > 0
    /\ \E n \in DOMAIN jobs :
         /\ jobs[n].active = {1}
         /\ jobs[n].completionTime = {}
         /\ olderThanDays = 2

\* floor(hours(now - completionTime) / 24)
FloorDays(j) ==
    (NowSeconds - GetSeconds(j.completionTime)) \div (SecondsPerHour * HoursPerDay)

\* The evaluation loop has dealt with the n-th job of the listing.
Evaluated(n) == n < ei \/ (pc = "panic" /\ n = ei)

InEligible(j) ==
    {k \in DOMAIN eligibleJobs : /\ eligibleJobs[k].name = j.name
                                 /\ eligibleJobs[k].namespace = j.namespace}

\* C5: a terminal job (active count zero or unset) that the evaluation has
\* dealt with is in the eligible set iff floor(hours(now - completionTime)
\* / 24) >= threshold, and the age recorded for it is that number of days.
C5_EligibleIffFloorDaysOld ==
    \A n \in DOMAIN jobs :
      (Evaluated(n) /\ jobs[n].active \in {{}, {0}}) =>
        /\ (InEligible(jobs[n]) # {}) <=> (FloorDays(jobs[n]) >= olderThanDays)
        /\ \A k \in InEligible(jobs[n]) : eligibleJobs[k].age = FloorDays(jobs[n])

\* The pod is in the group of that job name in opJobSet.
InGroup(q, x) ==
    /\ x \in DOMAIN opJobSet
    /\ \E n \in DOMAIN opJobSet[x] : /\ opJobSet[x][n].name = q.name
                                      /\ opJobSet[x][n].namespace = q.namespace

\* C6: a pod labelled job-name=X is in an orphan group iff the lookup of X
\* answered not-found; after a lookup that failed with another error the
\* pod is in no group and the orphan pass makes no DeletePod call for it.
C6_OrphanIffNotFound ==
    \A k \in Calls("GetJob") :
      LET c == calls[k]
          q == c.pods[1]
      IN  /\ InGroup(q, c.name) <=> (c.res = "notfound")
          /\ c.res \in {"api", "other"} =>
               \A d \in Calls("DeletePod") :
                 ~(/\ calls[d].job = 0
                   /\ calls[d].name = q.name
                   /\ calls[d].namespace = q.namespace)

NoPodsListed ==
    \E k \in Calls("ListPods") :
      calls[k].job = 0 /\ calls[k].name = "" /\ calls[k].pods = <<>>

CascadeCalls(o, j) == {k \in Calls(o) : calls[k].job = j}

\* The calls that name the resource.
CallsFor(K, name, ns) ==
    {k \in K : calls[k].name = name /\ calls[k].namespace = ns}

\* C8: in the cascade of an eligible job every DeletePod call comes before
\* the DeleteJob call.
C8_PodsBeforeJob ==
    \A j \in DOMAIN eligibleJobs :
      \A d \in CascadeCalls("DeleteJob", j) :
        \A q \in CascadeCalls("DeletePod", j) : q < d

\* A cascade has deleted two pods and then made the DeleteJob call.
C8_Witness ==
    \E j \in DOMAIN eligibleJobs :
      /\ Cardinality(CascadeCalls("DeletePod", j)) = 2
      /\ CascadeCalls("DeleteJob", j) # {}

\* The terminal pods among the pods with the label of an eligible job that
\* the cluster holds or that a cascade has listed.
CandidatePods ==
    LET names == {eligibleJobs[j].name : j \in DOMAIN eligibleJobs}
        seen  == {clusterPods[n] : n \in DOMAIN clusterPods}
                 \cup UNION { {calls[k].pods[n] : n \in DOMAIN calls[k].pods} :
                              k \in {l \in Calls("ListPods") : calls[l].job > 0} }
    IN  {q \in seen : /\ q.phase \in {"Succeeded", "Failed"}
                      /\ \E x \in names : q.label = {x}
                      /\ (kubeNamespace = "" \/ q.namespace = kubeNamespace)}

\* C9 as claimed: once the cascades of an apply run are over, every eligible
\* job has got exactly one DeleteJob call and every candidate pod exactly
\* one DeletePod call of the cascades.
C9_Original ==
    (deleteJobs /\ CascadesOver) =>
      /\ \A j \in DOMAIN eligibleJobs :
           Cardinality(CallsFor(Calls("DeleteJob"), eligibleJobs[j].name,
                                eligibleJobs[j].namespace)) = 1
      /\ \A q \in CandidatePods :
           Cardinality(CallsFor({k \in Calls("DeletePod") : calls[k].job > 0},
                                q.name, q.namespace)) = 1

\* C9, amended: once the cascades of an apply run are over, every eligible
\* job has had its pods listed once; if that listing succeeded, its cascade
\* has made exactly one DeletePod call for each pod of the listing in phase
\* Succeeded or Failed, none for any other pod, and exactly one DeleteJob
\* call, for the job; if the listing failed, the cascade has made no delete
\* call.
C9_OneCallPerListedCandidate ==
    (deleteJobs /\ CascadesOver) =>
      \A j \in DOMAIN eligibleJobs :
        LET dj == CascadeCalls("DeleteJob", j)
            dp == CascadeCalls("DeletePod", j)
        IN  /\ Cardinality(CascadeCalls("ListPods", j)) = 1
            /\ \A k \in CascadeCalls("ListPods", j) :
                 IF calls[k].res = "ok"
                 THEN /\ Cardinality(dj) = 1
                      /\ dj = CallsFor(dj, eligibleJobs[j].name, eligibleJobs[j].namespace)
                      /\ \A n \in DOMAIN calls[k].pods :
                           LET q == calls[k].pods[n] IN
                           Cardinality(CallsFor(dp, q.name, q.namespace))
                             = IF q.phase \in {"Succeeded", "Failed"} THEN 1 ELSE 0
                      /\ \A d \in dp :
                           \E n \in DOMAIN calls[k].pods :
                             /\ calls[k].pods[n].name = calls[d].name
                             /\ calls[k].pods[n].namespace = calls[d].namespace
                 ELSE dj = {} /\ dp = {}

\* The cascades of an apply run are over: the pod listing of one eligible
\* job failed, the cascade of another deleted a pod and the job.
C9_Witness ==
    /\ deleteJobs
    /\ CascadesOver
    /\ \E i, j \in DOMAIN eligibleJobs :
         /\ \E k \in CascadeCalls("ListPods", i) : calls[k].res = "err"
         /\ CascadeCalls("DeletePod", j) # {}
         /\ CascadeCalls("DeleteJob", j) # {}

FailedDeletes == {k \in DeleteCalls : calls[k].res = "err"}

\* What a finished apply run has done after the failed delete call k: no
\* second call for the same resource by the same cascade or pass; after a
\* DeletePod of a cascade, a call for every terminal pod the cascade listed
\* and then the DeleteJob call; after a DeleteJob, the pod listing of every
\* later eligible job; after a DeletePod of the orphan pass, a call for
\* every terminal pod of the orphan groups.
WentOnAfter(k) ==
    LET c == calls[k]
        same == {l \in CallsFor(Calls(c.op), c.name, c.namespace) : calls[l].job = c.job}
    IN  /\ same = {k}
        /\ (c.op = "DeletePod" /\ c.job > 0) =>
             /\ \A l \in CascadeCalls("ListPods", c.job) :
                  \A n \in DOMAIN calls[l].pods :
                    calls[l].pods[n].phase \in {"Succeeded", "Failed"} =>
                      CallsFor(CascadeCalls("DeletePod", c.job),
                               calls[l].pods[n].name, calls[l].pods[n].namespace) # {}
             /\ \E d \in CascadeCalls("DeleteJob", c.job) : d > k
        /\ c.op = "DeleteJob" =>
             \A j \in DOMAIN eligibleJobs :
               j > c.job => \E l \in CascadeCalls("ListPods", j) : l > k
        /\ (c.op = "DeletePod" /\ c.job = 0) =>
             \A g \in DOMAIN opJobs :
               \A n \in DOMAIN opJobs[g].pods :
                 opJobs[g].pods[n].phase \in {"Succeeded", "Failed"} =>
                   CallsFor(CascadeCalls("DeletePod", 0),
                            opJobs[g].pods[n].name, opJobs[g].pods[n].namespace) # {}

\* C10: in apply mode a run in which a delete call has failed does not
\* panic and reaches the end of main(); by then every failed delete call
\* has been followed by the calls that were due after it and has not been
\* repeated.
C10_FailedDeleteStopsNothing ==
    /\ [](FailedDeletes # {} => pc # "panic")
    /\ [](pc = "done" => \A k \in FailedDeletes : WentOnAfter(k))
    /\ [](FailedDeletes # {} => <>(pc = "done"))

\* An apply run has ended in which a DeletePod call of a cascade failed
\* and the same cascade then deleted another pod and the job.
C10_Witness ==
    /\ pc = "done"
    /\ \E k \in FailedDeletes :
         /\ calls[k].op = "DeletePod"
         /\ calls[k].job > 0
         /\ \E l \in CascadeCalls("DeletePod", calls[k].job) : l > k /\ calls[l].res = "ok"
         /\ \E d \in CascadeCalls("DeleteJob", calls[k].job) : calls[d].res = "ok"

\* C11: in apply mode, once the pod listing of the cascade of an eligible
\* job has failed, that cascade makes no DeletePod call, no DeleteJob call
\* is made for the job, which stays in the cluster, the loop has moved on
\* to the next eligible job without a panic, and by the end of the
\* cascades every later eligible job has had its pods listed and, where
\* that listing succeeded, its DeleteJob call.
C11_FailedListingSkipsCascade ==
    deleteJobs =>
      \A j \in DOMAIN eligibleJobs :
        \A k \in CascadeCalls("ListPods", j) :
          calls[k].res = "err" =>
            /\ CascadeCalls("DeletePod", j) = {}
            /\ CascadeCalls("DeleteJob", j) = {}
            /\ CallsFor(Calls("DeleteJob"), eligibleJobs[j].name,
                        eligibleJobs[j].namespace) = {}
            /\ JobExists(eligibleJobs[j].name, eligibleJobs[j].namespace)
            /\ ji > j
            /\ pc # "panic"
            /\ CascadesOver =>
                 \A i \in DOMAIN eligibleJobs :
                   i > j =>
                     \E l \in CascadeCalls("ListPods", i) :
                       /\ l > k
                       /\ calls[l].res = "ok" => CascadeCalls("DeleteJob", i) # {}

\* The cascades of an apply run are over: the pod listing of the first
\* eligible job failed while the cluster held a terminal pod of that job,
\* which is still there, and the cascade of the next eligible job deleted
\* a pod and the job.
C11_Witness ==
    /\ deleteJobs
    /\ CascadesOver
    /\ Len(eligibleJobs) = 2
    /\ \E k \in CascadeCalls("ListPods", 1) : calls[k].res = "err"
    /\ \E n \in DOMAIN clusterPods :
         /\ clusterPods[n].label = {eligibleJobs[1].name}
         /\ clusterPods[n].namespace = eligibleJobs[1].namespace
         /\ clusterPods[n].phase \in {"Succeeded", "Failed"}
    /\ \E d \in CascadeCalls("DeletePod", 2) : calls[d].res = "ok"
    /\ \E d \in CascadeCalls("DeleteJob", 2) : calls[d].res = "ok"

\* C12: when the tool has run twice in simulate mode on the same cluster
\* and both runs got the same answers to the same API calls, the second run
\* has printed the report of the first: the same lines for the eligible
\* jobs and the same lines for the orphan groups, in the same order.
C12_SimulateTwiceSameReport ==
    (/\ ~deleteJobs
     /\ run = 2
     /\ pc = "done"
     /\ calls = prevCalls
     /\ clusterJobs = jobs0
     /\ clusterPods = pods0)
    => report = prevReport

\* The namespace is in the scope of the run.
InScope(ns) == kubeNamespace = "" \/ ns = kubeNamespace

\* The jobs of js that a run finds eligible.
EligibleOf(js) ==
    SelectSeq(js, LAMBDA j : /\ InScope(j.namespace)
                             /\ ~StillRunning(j)
                             /\ OldEnough(DaysOld(j), olderThanDays))

\* The seq has an entry with that name and, unless ns is "", namespace.
Holds(seq, name, ns) ==
    \E k \in DOMAIN seq : seq[k].name = name /\ (ns = "" \/ seq[k].namespace = ns)

\* What the cascades of an apply run that meets no API error leave of the
\* jobs js and the pods ps: the jobs that are not eligible, and the pods
\* that are not a terminal pod in scope with the label of an eligible job.
AfterCascades(js, ps) ==
    [jobs |-> SelectSeq(js, LAMBDA j : ~(\E k \in DOMAIN EligibleOf(js) :
                                           EligibleOf(js)[k] = j)),
     pods |-> SelectSeq(ps, LAMBDA q : ~(/\ InScope(q.namespace)
                                         /\ TerminalPhase(q.phase)
                                         /\ \E x \in q.label :
                                              Holds(EligibleOf(js), x, "")))]

\* What the orphan pass of such a run leaves: the pods that are not a
\* terminal pod in scope whose label names no job stored under the scope.
AfterOrphans(c) ==
    [jobs |-> c.jobs,
     pods |-> SelectSeq(c.pods, LAMBDA q :
                ~(/\ InScope(q.namespace)
                  /\ TerminalPhase(q.phase)
                  /\ \E x \in q.label :
                       ~(kubeNamespace # "" /\ Holds(c.jobs, x, kubeNamespace))))]

\* The cluster after one apply run without API errors on jobs js, pods ps.
FailureFreeApply(js, ps) ==
    IF orphanedPods THEN AfterOrphans(AfterCascades(js, ps))
                    ELSE AfterCascades(js, ps)

\* The first apply run has ended without a failed call.
FirstRunClean ==
    /\ deleteJobs
    /\ run = 1
    /\ pc = "done"
    /\ \A k \in DOMAIN calls : calls[k].res \notin {"err", "api", "other"}

\* FailureFreeApply says what a failure-free apply run leaves.
FailureFreeApplyIsRight ==
    FirstRunClean =>
      /\ clusterJobs = FailureFreeApply(jobs0, pods0).jobs
      /\ clusterPods = FailureFreeApply(jobs0, pods0).pods

\* C13: when an apply run that was killed or in which delete calls (and
\* no other calls) failed has been followed by a second apply run with the
\* same flags that met no failure and has ended, the cluster holds the jobs
\* and pods that one failure-free apply run on the first cluster leaves.
C13_ReinvocationConverges ==
    (/\ deleteJobs
     /\ run = 2
     /\ pc = "done"
     /\ \A k \in DOMAIN prevCalls :
          Failed(prevCalls[k]) => prevCalls[k].op \in {"DeletePod", "DeleteJob"})
    =>
      /\ clusterJobs = FailureFreeApply(jobs0, pods0).jobs
      /\ clusterPods = FailureFreeApply(jobs0, pods0).pods

\* The number of whole days between the epoch and the time of the run.
DaysSinceEpoch == NowSeconds \div (SecondsPerHour * HoursPerDay)

\* C14: a job whose completion time is absent or zero and whose active
\* count is not 1, once the evaluation has dealt with it under a threshold
\* of at most the whole days since the epoch, is in the eligible set with
\* that number of days as its age, and the run has not panicked, so that
\* an apply run goes on to delete it.
C14_EpochJobEligible ==
    \A n \in DOMAIN jobs :
      (/\ Evaluated(n)
       /\ GetSeconds(jobs[n].completionTime) = 0
       /\ jobs[n].active # {1}
       /\ olderThanDays <= DaysSinceEpoch)
      => /\ pc # "panic"
         /\ InEligible(jobs[n]) # {}
         /\ \A k \in InEligible(jobs[n]) : eligibleJobs[k].age = DaysSinceEpoch

\* The number of pods in the groups.
RECURSIVE PodsInGroups(_)
PodsInGroups(groups) ==
    IF groups = <<>> THEN 0
    ELSE Len(Head(groups).pods) + PodsInGroups(Tail(groups))

\* C15: a run with the orphan search that has ended has printed the
\* summary of the orphan pass, in simulate and in apply mode, and the
\* summary gives as its pod total the number of pods in all the orphan
\* groups returned and as its job count the number of distinct job names
\* of these groups.
C15_SummaryCountsOrphans ==
    /\ (orphanedPods /\ pc = "done") =>
         \E k \in DOMAIN report : report[k].kind = "summary"
    /\ \A k \in DOMAIN report :
         report[k].kind = "summary" =>
           /\ report[k].n = PodsInGroups(opJobs)
           /\ report[k].m = Cardinality({opJobs[g].name : g \in DOMAIN opJobs})

\* The pods that the listing of the cascade of the j-th eligible job
\* returned under that name and namespace.
ListedInCascade(j, name, ns) ==
    UNION { {calls[k].pods[n] : n \in {i \in DOMAIN calls[k].pods :
                                          /\ calls[k].pods[i].name = name
                                          /\ calls[k].pods[i].namespace = ns}} :
            k \in CascadeCalls("ListPods", j) }

\* C16: every DeletePod call of the cascade of an eligible job is made for
\* a pod that the cascade listed, that carries the label job-name of the
\* job's name and that is in the job's namespace, whatever the scope.
C16_CascadeDeletesOwnPods ==
    \A j \in DOMAIN eligibleJobs :
      \A d \in CascadeCalls("DeletePod", j) :
        /\ ListedInCascade(j, calls[d].name, calls[d].namespace) # {}
        /\ \A q \in ListedInCascade(j, calls[d].name, calls[d].namespace) :
             q.label = {eligibleJobs[j].name}
        /\ calls[d].namespace = eligibleJobs[j].namespace

\* The lookup of the orphan scan for that pod was answered, not failed.
LookupAnswered(q) ==
    \E k \in Calls("GetJob") :
      /\ calls[k].res \in {"ok", "notfound"}
      /\ calls[k].pods[1].name = q.name
      /\ calls[k].pods[1].namespace = q.namespace

\* C17: for every orphan group returned, every pod of the group whose
\* lookup was answered is in the namespace recorded for the group, and no
\* job of the group's name exists in the namespace of the pod.
C17_OrphanGroupsPerNamespace ==
    \A g \in DOMAIN opJobs :
      \A n \in DOMAIN opJobs[g].pods :
        LET q == opJobs[g].pods[n] IN
        LookupAnswered(q) =>
          /\ q.namespace = opJobs[g].namespace
          /\ ~JobExists(opJobs[g].name, q.namespace)

====
